---------------------------- MODULE Spec2Model ----------------------------
(***************************************************************************)
(* A model of the rendering engine of src/src/App.tsx: the route map       *)
(* (MapView), the daily log sheet (ELDLogSheet) and the day partitioner    *)
(* (getUniqueDates), driven by the trip the application state holds, and   *)
(* the application state itself (appReducer, calculateTrip).               *)
(*                                                                         *)
(* JavaScript numbers are records [fin, v]: a finite number carries its    *)
(* value, NaN and the two infinities are the three non-finite values.      *)
(* Pixel coordinates are kept in units of 1/Scale pixel, so that every     *)
(* division the renderers make (by the lat/lng range, by 24 hours, by 60   *)
(* minutes, by 8 for the row mid-height) is exact on the inputs drawn.     *)
(* Strings the code parses or sorts (times, dates) are sequences of        *)
(* one-character strings.                                                  *)
(***************************************************************************)
EXTENDS Integers, Sequences, FiniteSets, TLC

VARIABLES tripData,       \* state.tripData: a trip or NoTrip (null)
          showLogSheets,  \* the showLogSheets flag of ELDTripPlanner
          mapCanvas,      \* the canvas of MapView (and its 2D context)
          sheets,         \* the canvases of the mounted ELDLogSheet's, by date
          thrown,         \* an exception left an effect (React unmounts the tree)
          response,       \* the payload of the last SET_TRIP_DATA, as it was received
          surface,        \* what canvasRef.current and getContext('2d') give the effects
          currentLocation,    \* state.currentLocation: a location or NoLocation (null)
          pickupLocation,     \* state.pickupLocation
          dropoffLocation,    \* state.dropoffLocation
          currentCycleHours,  \* state.currentCycleHours: a number
          isCalculating,      \* state.isCalculating
          error,              \* state.error: <<>> (null) or <<message>>
          requests            \* the createTrip requests that have not settled

renderVars == <<tripData, showLogSheets, mapCanvas, sheets, thrown, response, surface>>

appVars == <<currentLocation, pickupLocation, dropoffLocation, currentCycleHours,
             isCalculating, error, requests>>

vars == <<renderVars, appVars>>

(***************************************************************************)
(* Bounds of the model.                                                    *)
(***************************************************************************)
MaxRoute == 2
MaxStops == 2
MaxLogs == 4

(***************************************************************************)
(* Numbers.                                                                *)
(***************************************************************************)
Scale == 8 * 9

Fin(n) == [fin |-> TRUE, v |-> n]
NaN == [fin |-> FALSE, v |-> 0]
PosInf == [fin |-> FALSE, v |-> 1]
NegInf == [fin |-> FALSE, v |-> -1]

Px(n) == Fin(n * Scale)

IsNaN(a) == a = NaN

\* Number.isFinite, as the canvas applies it to every coordinate argument
IsFinite(a) == a.fin

\* ToBoolean of a number: 0 and NaN are falsy, every other number is truthy
Truthy(a) == IF a.fin THEN a.v # 0 ELSE ~IsNaN(a)

Neg(a) == IF a.fin THEN Fin(-a.v) ELSE [a EXCEPT !.v = -a.v]

Add(a, b) ==
    IF a.fin /\ b.fin THEN Fin(a.v + b.v)
    ELSE IF IsNaN(a) \/ IsNaN(b) THEN NaN
    ELSE IF a.fin THEN b
    ELSE IF b.fin THEN a
    ELSE IF a = b THEN a ELSE NaN

Sub(a, b) == Add(a, Neg(b))

\* a > b, false when either side is NaN
Gt(a, b) ==
    IF IsNaN(a) \/ IsNaN(b) THEN FALSE
    ELSE IF a.fin /\ b.fin THEN a.v > b.v
    ELSE IF a.fin THEN b = NegInf
    ELSE IF b.fin THEN a = PosInf
    ELSE a = PosInf /\ b = NegInf

\* (a / r) * span for finite r >= 0 and span > 0; exact on the inputs drawn.
\* A division by zero gives NaN (0 / 0) or an infinity.
Frac(a, r, span) ==
    IF ~a.fin THEN a
    ELSE IF r = 0 THEN (IF a.v = 0 THEN NaN ELSE IF a.v > 0 THEN PosInf ELSE NegInf)
    ELSE Fin((a.v * span) \div r)

\* the range used as computed, zero included
OrOneSkipped(a) == a

\* x || 1 on a number
OrOne(a) == IF Truthy(a) THEN a ELSE Fin(1)

RECURSIVE MinOf(_)
MinOf(s) ==
    IF Len(s) = 1 THEN s[1]
    ELSE LET m == MinOf(Tail(s)) IN IF s[1] < m THEN s[1] ELSE m

RECURSIVE MaxOf(_)
MaxOf(s) ==
    IF Len(s) = 1 THEN s[1]
    ELSE LET m == MaxOf(Tail(s)) IN IF s[1] > m THEN s[1] ELSE m

(***************************************************************************)
(* Text drawn on a canvas: a literal, the numbers and the strings          *)
(* interpolated into it.                                                   *)
(***************************************************************************)
Text(lit, nums, strs) == [lit |-> lit, nums |-> nums, strs |-> strs]

(***************************************************************************)
(* The canvas and its 2D context.  content is what the bitmap shows, as    *)
(* the sequence of the marks painted since it was last blank; the other    *)
(* fields are the drawing state of the context, which lives as long as    *)
(* the canvas does.                                                        *)
(***************************************************************************)
\* CSS colours the code writes in a short form
Colour(c) ==
    IF c = "#000" THEN "#000000"
    ELSE IF c = "white" THEN "#ffffff"
    ELSE c

DefaultState ==
    [fillStyle |-> "#000000", strokeStyle |-> "#000000", lineWidth |-> 1,
     font |-> "10px sans-serif", textAlign |-> "start", path |-> <<>>]

NewCanvas(w, h) ==
    [width |-> w, height |-> h, content |-> <<>>] @@ DefaultState

\* canvas.width = w; canvas.height = h: each assignment blanks the bitmap
\* and resets the context to its default state
SetSize(s, w, h) == NewCanvas(w, h)

SetFillStyle(s, c) == [s EXCEPT !.fillStyle = Colour(c)]
SetStrokeStyle(s, c) == [s EXCEPT !.strokeStyle = Colour(c)]
SetLineWidth(s, n) == [s EXCEPT !.lineWidth = n]
SetFont(s, f) == [s EXCEPT !.font = f]
SetTextAlign(s, a) == [s EXCEPT !.textAlign = a]

Covers(s, x, y, w, h) ==
    x = 0 /\ y = 0 /\ w = s.width /\ h = s.height

ClearRect(s, x, y, w, h) ==
    IF Covers(s, x, y, w, h) THEN [s EXCEPT !.content = <<>>]
    ELSE [s EXCEPT !.content =
            Append(@, [op |-> "clearRect", at |-> <<x, y, w, h>>])]

\* an opaque fill of the whole bitmap leaves nothing of what was under it
FillRect(s, x, y, w, h) ==
    LET mark == [op |-> "fillRect", at |-> <<x, y, w, h>>,
                 style |-> s.fillStyle]
    IN  IF Covers(s, x, y, w, h) THEN [s EXCEPT !.content = <<mark>>]
        ELSE [s EXCEPT !.content = Append(@, mark)]

\* fillText returns without drawing when x or y is not finite
FillText(s, text, x, y) ==
    IF IsFinite(x) /\ IsFinite(y)
    THEN [s EXCEPT !.content =
            Append(@, [op |-> "fillText", text |-> text, at |-> <<x.v, y.v>>,
                       style |-> s.fillStyle, font |-> s.font,
                       align |-> s.textAlign])]
    ELSE s

BeginPath(s) == [s EXCEPT !.path = <<>>]

\* moveTo and lineTo return without effect when x or y is not finite
MoveTo(s, x, y) ==
    IF IsFinite(x) /\ IsFinite(y)
    THEN [s EXCEPT !.path = Append(@, [kind |-> "line", pts |-> <<<<x.v, y.v>>>>])]
    ELSE s

\* with no subpath yet, lineTo only starts one at the point
LineTo(s, x, y) ==
    IF ~(IsFinite(x) /\ IsFinite(y)) THEN s
    ELSE IF s.path = <<>> \/ s.path[Len(s.path)].kind # "line"
    THEN [s EXCEPT !.path = Append(@, [kind |-> "line", pts |-> <<<<x.v, y.v>>>>])]
    ELSE [s EXCEPT !.path[Len(s.path)].pts = Append(@, <<x.v, y.v>>)]

\* arc(x, y, r, 0, 2 * Math.PI): a full circle, nothing when x or y is not finite
Arc(s, x, y, r) ==
    IF IsFinite(x) /\ IsFinite(y)
    THEN [s EXCEPT !.path = Append(@, [kind |-> "circle", pts |-> <<<<x.v, y.v>>, <<r, r>>>>])]
    ELSE s

\* the subpaths that leave a mark: a line subpath of one point leaves none
Drawable(path) ==
    SelectSeq(path, LAMBDA sp : sp.kind = "circle" \/ Len(sp.pts) >= 2)

Stroke(s) ==
    IF Drawable(s.path) = <<>> THEN s
    ELSE [s EXCEPT !.content =
            Append(@, [op |-> "stroke", path |-> Drawable(s.path),
                       style |-> s.strokeStyle, lineWidth |-> s.lineWidth])]

Fill(s) ==
    IF Drawable(s.path) = <<>> THEN s
    ELSE [s EXCEPT !.content =
            Append(@, [op |-> "fill", path |-> Drawable(s.path),
                       style |-> s.fillStyle])]

(***************************************************************************)
(* The trip (TripResponse) and the null trip.                              *)
(***************************************************************************)
NoTrip == [null |-> TRUE]

\* a rest stop whose location is absent from the response
NoLocation == [missing |-> TRUE]

Location(lat, lng) == [lat |-> lat, lng |-> lng]

(***************************************************************************)
(* MapView: the effect that draws the route map.                           *)
(***************************************************************************)
padding == 40

PlaceholderText == Text("Calculate trip to see route visualization", <<>>, <<>>)

\* lats, lngs, minLat .. maxLng, latRange and lngRange of a non-empty route
Bounds(route) ==
    LET lats == [i \in 1..Len(route) |-> route[i][1]]
        lngs == [i \in 1..Len(route) |-> route[i][2]]
        minLat == MinOf(lats)
        maxLat == MaxOf(lats)
        minLng == MinOf(lngs)
        maxLng == MaxOf(lngs)
    IN  [minLat |-> minLat, maxLat |-> maxLat,
         minLng |-> minLng, maxLng |-> maxLng,
         latRange |-> OrOne(Fin(maxLat - minLat)),
         lngRange |-> OrOne(Fin(maxLng - minLng))]

\* toCanvas scaling to the surface less one padding only
toCanvasNoPad(b, s, lat, lng) ==
    <<Add(Px(padding),
          Frac(Sub(lng, Fin(b.minLng)), b.lngRange.v, (s.width - padding) * Scale)),
      Add(Px(padding),
          Frac(Sub(Fin(b.maxLat), lat), b.latRange.v, (s.height - padding) * Scale))>>

toCanvas(b, s, lat, lng) ==
    <<Add(Px(padding),
          Frac(Sub(lng, Fin(b.minLng)), b.lngRange.v, (s.width - 2 * padding) * Scale)),
      Add(Px(padding),
          Frac(Sub(Fin(b.maxLat), lat), b.latRange.v, (s.height - 2 * padding) * Scale))>>

\* the route line from index i, a point equal to the one before it left out
RECURSIVE RouteLineToSkipRepeats(_, _, _, _)
RouteLineToSkipRepeats(s, b, route, i) ==
    IF i > Len(route) THEN s
    ELSE LET xy == toCanvas(b, s, Fin(route[i][1]), Fin(route[i][2]))
         IN  RouteLineToSkipRepeats(IF route[i] = route[i - 1] THEN s
                                    ELSE LineTo(s, xy[1], xy[2]),
                                    b, route, i + 1)

\* the for loop of the route line, from index i
RECURSIVE RouteLineTo(_, _, _, _)
RouteLineTo(s, b, route, i) ==
    IF i > Len(route) THEN s
    ELSE LET xy == toCanvas(b, s, Fin(route[i][1]), Fin(route[i][2]))
         IN  RouteLineTo(LineTo(s, xy[1], xy[2]), b, route, i + 1)

DrawRoute(s, b, route) ==
    LET s1 == BeginPath(SetLineWidth(SetStrokeStyle(s, "#3b82f6"), 3))
        start == toCanvas(b, s1, Fin(route[1][1]), Fin(route[1][2]))
        s2 == MoveTo(s1, start[1], start[2])
    IN  Stroke(RouteLineTo(s2, b, route, 2))

drawMarker(s, b, lat, lng, color, label) ==
    LET xy == toCanvas(b, s, lat, lng)
        x == xy[1]
        y == xy[2]
        s1 == Fill(Arc(BeginPath(SetFillStyle(s, color)), x, y, 8))
        s2 == Fill(Arc(BeginPath(SetFillStyle(s1, "white")), x, y, 4))
        s3 == SetTextAlign(SetFont(SetFillStyle(s2, "#1f2937"), "bold 12px sans-serif"),
                           "center")
    IN  FillText(s3, label, x, Sub(y, Px(15)))

\* stop.location.lat && stop.location.lng
RestStopGuard(loc) == Truthy(loc.lat) /\ Truthy(loc.lng)

\* rest_stops.forEach from index i; reading .lat of an absent location throws
RECURSIVE DrawRestStops(_, _, _, _)
DrawRestStops(s, b, stops, i) ==
    IF i > Len(stops) THEN [canvas |-> s, threw |-> FALSE]
    ELSE LET loc == stops[i].location
         IN  IF loc = NoLocation THEN [canvas |-> s, threw |-> TRUE]
             ELSE IF RestStopGuard(loc)
             THEN DrawRestStops(
                      drawMarker(s, b, loc.lat, loc.lng, "#8b5cf6", Text("S", <<i>>, <<>>)),
                      b, stops, i + 1)
             ELSE DrawRestStops(s, b, stops, i + 1)

\* the clear left out: the effect draws over what the canvas holds
ClearMapSkipped(s) == s

\* clearRect and the background fill of the whole canvas
ClearMap(s) ==
    LET s1 == ClearRect(s, 0, 0, s.width, s.height)
    IN  FillRect(SetFillStyle(s1, "#f8fafc"), 0, 0, s.width, s.height)

\* a route of one point taken for no route
NoRouteUnderTwo(trip) == trip = NoTrip \/ Len(trip.route_coordinates) <= 1

\* !tripData || !tripData.route_coordinates.length
NoRoute(trip) == trip = NoTrip \/ trip.route_coordinates = <<>>

MapViewEffect(s, trip) ==
    LET s2 == ClearMap(s)
    IN  IF NoRoute(trip)
        THEN [canvas |-> FillText(SetTextAlign(SetFont(SetFillStyle(s2, "#64748b"),
                                      "16px sans-serif"), "center"),
                                  PlaceholderText, Fin((s.width * Scale) \div 2),
                                  Fin((s.height * Scale) \div 2)),
              threw |-> FALSE]
        ELSE LET b == Bounds(trip.route_coordinates)
                 s3 == DrawRoute(s2, b, trip.route_coordinates)
                 s4 == drawMarker(s3, b, trip.current_location.lat,
                                  trip.current_location.lng, "#10b981",
                                  Text("Current", <<>>, <<>>))
                 s5 == drawMarker(s4, b, trip.pickup_location.lat,
                                  trip.pickup_location.lng, "#f59e0b",
                                  Text("Pickup", <<>>, <<>>))
                 s6 == drawMarker(s5, b, trip.dropoff_location.lat,
                                  trip.dropoff_location.lng, "#ef4444",
                                  Text("Dropoff", <<>>, <<>>))
             IN  DrawRestStops(s6, b, trip.rest_stops, 1)

(***************************************************************************)
(* Strings the code takes apart: String.split(':') and parseFloat, over    *)
(* the characters 0-9, ':', '-' and the letter x (no sign, decimal point,  *)
(* exponent or white space occurs in the times drawn here).                *)
(***************************************************************************)
Digits == <<"0", "1", "2", "3", "4", "5", "6", "7", "8", "9">>

IsDigit(c) == \E d \in 1..Len(Digits) : Digits[d] = c

DigitVal(c) == (CHOOSE d \in 1..Len(Digits) : Digits[d] = c) - 1

\* timeString.split(':')
RECURSIVE SplitAcc(_, _, _)
SplitAcc(str, i, parts) ==
    IF i > Len(str) THEN parts
    ELSE IF str[i] = ":" THEN SplitAcc(str, i + 1, Append(parts, <<>>))
    ELSE SplitAcc(str, i + 1, [parts EXCEPT ![Len(parts)] = Append(@, str[i])])

Split(str) == SplitAcc(str, 1, <<<<>>>>)

RECURSIVE ParseDigits(_, _, _)
ParseDigits(str, i, acc) ==
    IF i > Len(str) \/ ~IsDigit(str[i]) THEN acc
    ELSE ParseDigits(str, i + 1, acc * 10 + DigitVal(str[i]))

\* parseFloat: the value of the longest numeric prefix, NaN when there is none
parseFloat(str) ==
    IF str = <<>> \/ ~IsDigit(str[1]) THEN NaN ELSE Fin(ParseDigits(str, 1, 0))

\* parseFloat(parts[i - 1]); an index past the end reads undefined, which is NaN
ParseFloatAt(parts, i) == IF i > Len(parts) THEN NaN ELSE parseFloat(parts[i])

\* a time of day the Date constructor accepts after "2000-01-01T": HH:MM or HH:MM:SS
IsTimeString(str) ==
    /\ Len(str) \in {5, 8}
    /\ \A i \in 1..Len(str) : IF i \in {3, 6} THEN str[i] = ":" ELSE IsDigit(str[i])
    /\ ParseDigits(str, 1, 0) <= 23
    /\ ParseDigits(str, 4, 0) <= 59
    /\ (Len(str) = 8 => ParseDigits(str, 7, 0) <= 59)

\* toLocaleTimeString with 2-digit hour and minute; "Invalid Date" for an invalid date
formatTime(timeString) ==
    IF IsTimeString(timeString)
    THEN Text("HH:MM", <<ParseDigits(timeString, 1, 0), ParseDigits(timeString, 4, 0)>>, <<>>)
    ELSE Text("Invalid Date", <<>>, <<>>)

\* toLocaleDateString of the date string: the locale's rendering is not modelled,
\* the label is kept as the date string it was made from
formatDate(dateString) == <<"toLocaleDateString">> \o dateString

getDutyStatusColor(status) ==
    CASE status = "driving" -> "#ef4444"
      [] status = "on_duty" -> "#f59e0b"
      [] status = "off_duty" -> "#10b981"
      [] status = "sleeper_berth" -> "#3b82f6"
      [] OTHER -> "#6b7280"

(***************************************************************************)
(* ELDLogSheet: the effect that draws one day's log sheet.                 *)
(***************************************************************************)
gridY == 110
gridHeight == 300
gridWidth == 700
startX == 50
SheetWidth == 800
SheetHeight == 600

\* the logs filtered to the sheet's date
DailyLogsOfDate(trip, logDate) ==
    SelectSeq(trip.eld_logs, LAMBDA log : log.log_date = logDate)

\* const dailyLogs = tripData.eld_logs
DailyLogs(trip, logDate) == trip.eld_logs

DrawHeader(s, trip, logDate) ==
    LET s1 == SetLineWidth(SetFillStyle(SetStrokeStyle(s, "#000"), "#000"), 1)
        s2 == FillText(SetTextAlign(SetFont(s1, "bold 16px Arial"), "center"),
                       Text("ELECTRONIC LOGGING DEVICE (ELD) DAILY LOG", <<>>, <<>>),
                       Fin((s.width * Scale) \div 2), Px(30))
        s3 == SetTextAlign(SetFont(s2, "12px Arial"), "left")
        name == IF trip.driver_info.full_name = "" THEN "N/A"
                ELSE trip.driver_info.full_name
        s4 == FillText(s3, Text("Driver: ", <<>>, <<name>>), Px(50), Px(60))
        s5 == FillText(s4, Text("License: ", <<>>, <<trip.driver_info.license_number>>),
                       Px(300), Px(60))
        s6 == FillText(s5, Text("Date: ", <<>>, formatDate(logDate)), Px(550), Px(60))
    IN  FillText(s6, Text("Trip ID: ", <<trip.id>>, <<>>), Px(50), Px(80))

statusLabels == <<"Off Duty", "Sleeper Berth", "Driving", "On Duty (Not Driving)">>

\* the subpaths of the grid: 5 horizontal lines (i = 0..4), then 25 vertical (i = 0..24)
GridPath ==
    [k \in 1..30 |->
        IF k <= 5
        THEN LET y == gridY * Scale + ((k - 1) * gridHeight * Scale) \div 4
             IN  [kind |-> "line",
                  pts |-> <<<<startX * Scale, y>>, <<(startX + gridWidth) * Scale, y>>>>]
        ELSE LET x == startX * Scale + ((k - 6) * gridWidth * Scale) \div 24
             IN  [kind |-> "line",
                  pts |-> <<<<x, gridY * Scale>>, <<x, (gridY + gridHeight) * Scale>>>>]]

\* the status label of row i = 0..3
StatusLabelMark(i) ==
    [op |-> "fillText", text |-> Text(statusLabels[i + 1], <<>>, <<>>),
     at |-> <<(startX - 10) * Scale,
              gridY * Scale + (i * gridHeight * Scale) \div 4
                  + (gridHeight * Scale) \div 8 + 3 * Scale>>,
     style |-> "#000000", font |-> "10px Arial", align |-> "right"]

\* the label of hour i = 0..24: i.toString().padStart(2, '0')
HourLabelMark(i) ==
    [op |-> "fillText", text |-> Text("hour", <<i \div 10, i % 10>>, <<>>),
     at |-> <<startX * Scale + (i * gridWidth * Scale) \div 24, (gridY - 5) * Scale>>,
     style |-> "#000000", font |-> "8px Arial", align |-> "center"]

GridLabels ==
    [i \in 1..4 |-> StatusLabelMark(i - 1)] \o [i \in 1..25 |-> HourLabelMark(i - 1)]

\* the grid lines (one path, one stroke) and the status and hour labels, drawn
\* with the stroke and fill styles the context has; as one step
DrawGrid(s) ==
    [s EXCEPT !.path = GridPath,
              !.content = (@ \o <<[op |-> "stroke", path |-> GridPath,
                                  style |-> s.strokeStyle, lineWidth |-> s.lineWidth]>>)
                          \o [i \in 1..Len(GridLabels) |->
                                [GridLabels[i] EXCEPT !.style = s.fillStyle]],
              !.font = "8px Arial",
              !.textAlign = "center"]

\* the hour of a time string alone, in minutes
FractionalHourNoMinutes(timeString) ==
    Frac(ParseFloatAt(Split(timeString), 1), 1, 60)

\* hours + minutes / 60 of a time string, in minutes (1/60 hour); seconds are not read
FractionalHour(timeString) ==
    LET parts == Split(timeString)
    IN  Add(Frac(ParseFloatAt(parts, 1), 1, 60), ParseFloatAt(parts, 2))

\* the switch on duty_status
StatusRow(status) ==
    CASE status = "off_duty" -> 0
      [] status = "sleeper_berth" -> 1
      [] status = "driving" -> 2
      [] status = "on_duty" -> 3
      [] OTHER -> 0

\* the body of the first dailyLogs.forEach: one entry's segment and its time labels
DrawSegment(s, log) ==
    LET startHour == FractionalHour(log.start_time)
        endHour == FractionalHour(log.end_time)
        y == Fin(gridY * Scale + (StatusRow(log.duty_status) * gridHeight * Scale) \div 4
                 + (gridHeight * Scale) \div 8)
        startX_line == Add(Px(startX), Frac(startHour, 24 * 60, gridWidth * Scale))
        endX_line == Add(Px(startX), Frac(endHour, 24 * 60, gridWidth * Scale))
        s1 == BeginPath(SetLineWidth(
                  SetStrokeStyle(s, getDutyStatusColor(log.duty_status)), 3))
        s2 == Stroke(LineTo(MoveTo(s1, startX_line, y), endX_line, y))
        s3 == SetTextAlign(SetFont(SetFillStyle(s2, "#000"), "8px Arial"), "center")
        s4 == FillText(s3, formatTime(log.start_time), startX_line, Sub(y, Px(5)))
    IN  IF Gt(Sub(endX_line, startX_line), Px(30))
        THEN FillText(s4, formatTime(log.end_time), endX_line, Sub(y, Px(5)))
        ELSE s4

RECURSIVE DrawSegments(_, _, _)
DrawSegments(s, logs, i) ==
    IF i > Len(logs) THEN s ELSE DrawSegments(DrawSegment(s, logs[i]), logs, i + 1)

DutyStatuses == {"off_duty", "sleeper_berth", "driving", "on_duty"}

\* the second dailyLogs.forEach: totals[log.duty_status] += log.duration_hours
RECURSIVE AddTotals(_, _, _)
AddTotals(totals, logs, i) ==
    IF i > Len(logs) THEN totals
    ELSE AddTotals([totals EXCEPT ![logs[i].duty_status] = @ + logs[i].duration_hours],
                   logs, i + 1)

\* the totals with each duration recomputed from end_time - start_time
TotalsFromTimes(logs) ==
    LET Minutes(log) ==
            LET d == Sub(FractionalHour(log.end_time), FractionalHour(log.start_time))
            IN  IF d.fin THEN (d.v * 100) \div 60 ELSE 0
        logsT == [i \in 1..Len(logs) |-> [logs[i] EXCEPT !.duration_hours = Minutes(logs[i])]]
    IN  AddTotals([st \in DutyStatuses |-> 0], logsT, 1)

\* const totals = {off_duty: 0, ...} and the loop over dailyLogs; hundredths of an hour
Totals(logs) == AddTotals([st \in DutyStatuses |-> 0], logs, 1)

\* x.toFixed(1) of x >= 0 given in hundredths: the nearest tenth, the larger of two
toFixed1(x) == (x + 5) \div 10

DrawTotals(s, logs) ==
    LET totals == Totals(logs)
        totalsY == gridY + gridHeight + 30
        s1 == SetTextAlign(SetFont(SetFillStyle(SetLineWidth(
                  SetStrokeStyle(s, "#000"), 1), "#000"), "12px Arial"), "left")
        s2 == FillText(s1, Text("TOTALS:", <<>>, <<>>), Px(50), Px(totalsY))
        s3 == FillText(s2, Text("Off Duty: hrs", <<toFixed1(totals["off_duty"])>>, <<>>),
                       Px(50), Px(totalsY + 20))
        s4 == FillText(s3, Text("Sleeper Berth: hrs", <<toFixed1(totals["sleeper_berth"])>>, <<>>),
                       Px(200), Px(totalsY + 20))
        s5 == FillText(s4, Text("Driving: hrs", <<toFixed1(totals["driving"])>>, <<>>),
                       Px(350), Px(totalsY + 20))
    IN  FillText(s5, Text("On Duty: hrs", <<toFixed1(totals["on_duty"])>>, <<>>),
                 Px(500), Px(totalsY + 20))

\* log.remarks && remarkY < canvas.height - 30
RemarkGuard(s, log, remarkY) == log.remarks # "" /\ remarkY < s.height - 30

\* the third dailyLogs.forEach, from index i with the running remarkY
RECURSIVE DrawRemarkLines(_, _, _, _)
DrawRemarkLines(s, logs, i, remarkY) ==
    IF i > Len(logs) THEN s
    ELSE IF RemarkGuard(s, logs[i], remarkY)
    THEN LET time == formatTime(logs[i].start_time)
             s1 == FillText(SetFont(s, "10px Arial"),
                            Text("remark", time.nums, <<time.lit, logs[i].remarks>>),
                            Px(50), Px(remarkY))
         IN  DrawRemarkLines(s1, logs, i + 1, remarkY + 15)
    ELSE DrawRemarkLines(s, logs, i + 1, remarkY)

DrawRemarks(s, logs) ==
    LET totalsY == gridY + gridHeight + 30
        s1 == FillText(s, Text("REMARKS:", <<>>, <<>>), Px(50), Px(totalsY + 50))
    IN  DrawRemarkLines(s1, logs, 1, totalsY + 70)

DrawFooter(s, logDate) ==
    LET s1 == FillText(SetFont(s, "12px Arial"),
                       Text("Driver Signature: _________________________", <<>>, <<>>),
                       Px(50), Px(s.height - 40))
        s2 == FillText(s1, Text("Date: ", <<>>, formatDate(logDate)),
                       Px(400), Px(s.height - 40))
    IN  SetFillStyle(SetLineWidth(SetStrokeStyle(s2, "#000"), 1), "#000")

\* the sheet set up without assigning the canvas size or filling the background
SetUpSheetNoClear(s) == s

\* canvas.width = 800; canvas.height = 600; and the white background
SetUpSheet(s) ==
    LET s1 == SetSize(s, SheetWidth, SheetHeight)
    IN  FillRect(SetFillStyle(s1, "white"), 0, 0, s1.width, s1.height)

LogSheetEffect(s, trip, logDate) ==
    LET dailyLogs == DailyLogs(trip, logDate)
        s1 == SetUpSheet(s)
        s2 == DrawGrid(DrawHeader(s1, trip, logDate))
        s3 == DrawSegments(s2, dailyLogs, 1)
        s4 == DrawTotals(s3, dailyLogs)
        s5 == DrawRemarks(s4, dailyLogs)
    IN  DrawFooter(s5, logDate)

(***************************************************************************)
(* getUniqueDates: the day partitioner.                                    *)
(***************************************************************************)
\* the UTF-16 code unit of a character
CharCode(c) ==
    CASE c = "-" -> 45
      [] c = ":" -> 58
      [] c = "x" -> 120
      [] OTHER -> 48 + DigitVal(c)

\* a < b as the default comparison of Array.prototype.sort orders two strings
RECURSIVE StrLess(_, _)
StrLess(a, b) ==
    IF b = <<>> THEN FALSE
    ELSE IF a = <<>> THEN TRUE
    ELSE IF CharCode(a[1]) # CharCode(b[1]) THEN CharCode(a[1]) < CharCode(b[1])
    ELSE StrLess(Tail(a), Tail(b))

\* [...new Set(dates)]: the first occurrence of each value, in order
RECURSIVE UniqueAcc(_, _, _)
UniqueAcc(seq, i, acc) ==
    IF i > Len(seq) THEN acc
    ELSE IF \E j \in 1..Len(acc) : acc[j] = seq[i] THEN UniqueAcc(seq, i + 1, acc)
    ELSE UniqueAcc(seq, i + 1, Append(acc, seq[i]))

RECURSIVE InsertSorted(_, _)
InsertSorted(sorted, x) ==
    IF sorted = <<>> THEN <<x>>
    ELSE IF StrLess(x, sorted[1]) THEN <<x>> \o sorted
    ELSE <<sorted[1]>> \o InsertSorted(Tail(sorted), x)

\* the sort left out
SortStringsSkipped(seq) == seq

\* Array.prototype.sort() with no comparator (stable, by code units), on a copy
RECURSIVE SortStrings(_)
SortStrings(seq) ==
    IF seq = <<>> THEN <<>>
    ELSE InsertSorted(SortStrings(SubSeq(seq, 1, Len(seq) - 1)), seq[Len(seq)])

\* dates -> [...new Set(dates)].sort()
UniqueSorted(dates) == SortStrings(UniqueAcc(dates, 1, <<>>))

getUniqueDates(trip) ==
    IF trip = NoTrip THEN <<>>
    ELSE UniqueSorted([i \in 1..Len(trip.eld_logs) |-> trip.eld_logs[i].log_date])

\* eld_logs ordered by log_date, as a sort of the array itself would leave it
RECURSIVE SortLogsByDate(_)
SortLogsByDate(logs) ==
    IF logs = <<>> THEN <<>>
    ELSE LET rest == SortLogsByDate(SubSeq(logs, 1, Len(logs) - 1))
             x == logs[Len(logs)]
             k == Cardinality({i \in 1..Len(rest) : ~StrLess(x.log_date, rest[i].log_date)})
         IN  SubSeq(rest, 1, k) \o <<x>> \o SubSeq(rest, k + 1, Len(rest))

\* the arrays of getUniqueDates with the sort applied to eld_logs itself
getUniqueDatesArraysSortingLogs(trip) ==
    LET logs == SortLogsByDate(trip.eld_logs)
    IN  [eld_logs |-> logs,
         dates |-> [i \in 1..Len(logs) |-> logs[i].log_date],
         unique |-> UniqueAcc([i \in 1..Len(logs) |-> logs[i].log_date], 1, <<>>)]

\* the arrays getUniqueDates reads and makes, as they are when it returns:
\* .map() and [...new Set()] each make a new array, .sort() sorts its receiver
getUniqueDatesArrays(trip) ==
    LET dates == [i \in 1..Len(trip.eld_logs) |-> trip.eld_logs[i].log_date]
        unique == UniqueAcc(dates, 1, <<>>)
    IN  [eld_logs |-> trip.eld_logs, dates |-> dates, unique |-> SortStrings(unique)]

(***************************************************************************)
(* The trips the backend may answer with.  The two renderers read disjoint *)
(* parts of a trip, so the route, markers and rest stops vary over trips   *)
(* without logs (MapTrips) and the logs vary over trips with one route     *)
(* (SheetTrips).                                                           *)
(***************************************************************************)
SeqsUpTo(S, n) == UNION {[1..k -> S] : k \in 0..n}

\* [lat, lng] pairs of route_coordinates
RoutePoints == {<<0, 0>>, <<0, 2>>, <<2, 0>>}

\* current, pickup and dropoff: all within every route's bounds, or two outside
NamedInside ==
    [current |-> Location(Fin(1), Fin(1)), pickup |-> Location(Fin(0), Fin(0)),
     dropoff |-> Location(Fin(1), Fin(1))]

NamedOutside ==
    [current |-> Location(Fin(3), Fin(-1)), pickup |-> Location(Fin(1), Fin(1)),
     dropoff |-> Location(Fin(0), Fin(4))]

NamedLocations == {NamedInside, NamedOutside}

\* rest stop locations: finite, on the equator, NaN, infinite, absent
StopLocations ==
    {Location(Fin(1), Fin(1)), Location(Fin(0), Fin(1)), Location(NaN, Fin(1)),
     Location(Fin(1), PosInf), NoLocation}

DriverInfo == [full_name |-> "A. Driver", license_number |-> "DL-1"]

Date1 == <<"2", "0", "2", "4", "-", "0", "1", "-", "0", "9">>
Date2 == <<"2", "0", "2", "4", "-", "0", "1", "-", "1", "0">>
\* a date the backend did not pad: sorts after both in code unit order
Date3 == <<"2", "0", "2", "4", "-", "1", "-", "9">>

\* the duty log entries drawn from; duration_hours in hundredths of an hour, all
\* multiples of a quarter hour, which binary floating point adds exactly
LogCatalogue ==
    <<[id |-> 0, log_date |-> Date1, duty_status |-> "driving",
       start_time |-> <<"0", "8", ":", "0", "0">>,
       end_time |-> <<"1", "0", ":", "3", "0">>,
       duration_hours |-> 250, remarks |-> "Depart"],
      [id |-> 0, log_date |-> Date2, duty_status |-> "off_duty",
       start_time |-> <<"1", "0", "3", "0">>,
       end_time |-> <<"1", "0", ":", "4", "x">>,
       duration_hours |-> 25, remarks |-> ""],
      [id |-> 0, log_date |-> Date1, duty_status |-> "on_duty",
       start_time |-> <<"0", "8", ":", "3", "0">>,
       end_time |-> <<"0", "9", ":", "0", "0">>,
       duration_hours |-> 75, remarks |-> "Fuel"],
      [id |-> 0, log_date |-> Date3, duty_status |-> "sleeper_berth",
       start_time |-> <<"8", "x", ":", "3", "0">>,
       end_time |-> <<"0", "9", ":", "1", "5", ":", "3", "0">>,
       duration_hours |-> 50, remarks |-> "Rest"]>>

BaseTrip ==
    [id |-> 1, driver_info |-> DriverInfo,
     current_location |-> Location(Fin(1), Fin(1)),
     pickup_location |-> Location(Fin(0), Fin(0)),
     dropoff_location |-> Location(Fin(1), Fin(1)),
     route_coordinates |-> <<<<0, 0>>, <<1, 2>>>>,
     rest_stops |-> <<>>,
     eld_logs |-> <<>>]

\* the named markers and the rest stops are drawn independently of each other:
\* the rest stops vary with the named locations inside the bounds
MarkerInputs ==
    {m \in NamedLocations \X SeqsUpTo(StopLocations, MaxStops) :
        m[1] = NamedInside \/ m[2] = <<>>}

MapTrips ==
    {[BaseTrip EXCEPT !.current_location = m[1].current,
                      !.pickup_location = m[1].pickup,
                      !.dropoff_location = m[1].dropoff,
                      !.route_coordinates = r,
                      !.rest_stops = [i \in 1..Len(m[2]) |-> [id |-> i, location |-> m[2][i]]]] :
        m \in MarkerInputs, r \in SeqsUpTo(RoutePoints, MaxRoute)}

SheetTrips ==
    {[BaseTrip EXCEPT !.eld_logs =
          [i \in 1..Len(c) |-> [LogCatalogue[c[i]] EXCEPT !.id = i]]] :
        c \in SeqsUpTo(1..Len(LogCatalogue), MaxLogs)}

Trips == MapTrips \cup SheetTrips

(***************************************************************************)
(* The application: the trip arrives (SET_TRIP_DATA), the effects of the   *)
(* components that depend on it run; the log sheets are mounted and        *)
(* unmounted by the Show/Hide button.                                      *)
(***************************************************************************)
MapWidth == 600
MapHeight == 400
\* a canvas element without width and height attributes
DefaultCanvasWidth == 300
DefaultCanvasHeight == 150

NoSheets == [d \in {} |-> NewCanvas(DefaultCanvasWidth, DefaultCanvasHeight)]

DateSet(trip) == {getUniqueDates(trip)[i] : i \in 1..Len(getUniqueDates(trip))}

\* what the effects find: a canvas with a 2D context, no canvas (canvasRef.current
\* is null), or a canvas whose getContext('2d') is null
Surfaces == {"ok", "noCanvas", "noContext"}

\* the MapView effect from its first line: the two guards, then the drawing
MapViewRender(surf, s, trip) ==
    IF surf = "noCanvas" THEN [canvas |-> s, threw |-> FALSE]
    ELSE IF surf = "noContext" THEN [canvas |-> s, threw |-> FALSE]
    ELSE MapViewEffect(s, trip)

\* the ELDLogSheet effect from its first line: the two guards, then the drawing
LogSheetRender(surf, s, trip, logDate) ==
    IF surf = "noCanvas" THEN s
    ELSE IF surf = "noContext" THEN s
    ELSE LogSheetEffect(s, trip, logDate)

\* getUniqueDates().map(date => <ELDLogSheet key={date} .../>): a sheet keeps the
\* canvas it has under the same key, a new key gets a new canvas
RenderSheets(surf, old, trip) ==
    [d \in DateSet(trip) |->
        LogSheetRender(surf,
                       IF d \in DOMAIN old THEN old[d]
                       ELSE NewCanvas(DefaultCanvasWidth, DefaultCanvasHeight),
                       trip, d)]

\* the trip object after the calls that read it: getUniqueDates sorts the array it
\* built, and the two effects call no method that changes an array of the trip
TripAfterGetUniqueDates(trip) ==
    [trip EXCEPT !.eld_logs = getUniqueDatesArrays(trip).eld_logs]

TripAfterMapView(trip) == trip

TripAfterLogSheet(trip) == trip

TripAfterRender(trip) ==
    TripAfterLogSheet(TripAfterMapView(TripAfterGetUniqueDates(trip)))

NoError == <<>>

\* the state after construction, the effects of the first render included
Start(surf) ==
    /\ tripData = NoTrip
    /\ response = NoTrip
    /\ surface = surf
    /\ showLogSheets = FALSE
    /\ mapCanvas = MapViewRender(surf, NewCanvas(MapWidth, MapHeight), NoTrip).canvas
    /\ sheets = NoSheets
    /\ thrown = FALSE
    /\ currentLocation = NoLocation
    /\ pickupLocation = NoLocation
    /\ dropoffLocation = NoLocation
    /\ currentCycleHours = Fin(7)
    /\ isCalculating = FALSE
    /\ error = NoError
    /\ requests = <<>>

Init == Start("ok")

\* dispatch SET_TRIP_DATA, the render and the effects that follow it
SetTripData(t) ==
    /\ ~thrown
    /\ response' = t
    /\ tripData' = TripAfterRender(t)
    /\ isCalculating' = FALSE
    /\ LET r == MapViewRender(surface, mapCanvas, t)
       IN  /\ mapCanvas' = r.canvas
           /\ thrown' = r.threw
           /\ sheets' = IF showLogSheets /\ ~r.threw
                        THEN RenderSheets(surface, sheets, t)
                        ELSE NoSheets
    /\ UNCHANGED <<showLogSheets, surface, currentLocation, pickupLocation,
                   dropoffLocation, currentCycleHours, error>>

\* the Show/Hide ELD Log Sheets button, rendered while there is a trip
ToggleLogSheets ==
    /\ ~thrown
    /\ tripData # NoTrip
    /\ showLogSheets' = ~showLogSheets
    /\ tripData' = TripAfterRender(tripData)
    /\ sheets' = IF showLogSheets' THEN RenderSheets(surface, NoSheets, tripData)
                 ELSE NoSheets
    /\ UNCHANGED <<mapCanvas, thrown, response, surface, appVars>>

\* The backend may answer with any trip.  To keep the search linear in the
\* number of trips, a trip outside FollowUpTrips is followed by one of
\* FollowUpTrips only; the first trip and the trip after a follow-up are any.
FollowUpTrips ==
    {t \in Trips :
        \/ t.route_coordinates = <<<<0, 2>>, <<2, 0>>>> /\ Len(t.rest_stops) = 1
             /\ t.rest_stops[1].location = Location(Fin(1), Fin(1))
             /\ t.current_location = Location(Fin(1), Fin(1))
        \/ Len(t.eld_logs) = 2
             /\ t.eld_logs[1].log_date = Date3
             /\ t.eld_logs[2].log_date = Date1 /\ t.eld_logs[2].duty_status = "driving"}

NextTrips ==
    IF tripData = NoTrip \/ tripData \in FollowUpTrips THEN Trips ELSE FollowUpTrips

\* The renderers under every answer of the backend: the request that an answer
\* settles is left to AppSpec.
Next ==
    \/ \E t \in NextTrips : SetTripData(t) /\ UNCHANGED requests
    \/ ToggleLogSheets

Spec == Init /\ [][Next]_vars

(***************************************************************************)
(* The trip planner: the locations and the cycle hours are set, Calculate  *)
(* issues a createTrip request, and the request settles with a trip or     *)
(* with an error.                                                          *)
(***************************************************************************)
\* the locations the geocoder answers with
GeocodeResults == {Location(Fin(1), Fin(1)), Location(Fin(0), Fin(4))}

\* what is typed into the cycle hours field
CycleInputs == {<<"3", "5">>, <<>>}

\* parseFloat(e.target.value) || 0
OrZero(a) == IF Truthy(a) THEN a ELSE Fin(0)

LocationsMessage == "Please set all location coordinates before calculating trip"

\* the messages of the errors createTrip rejects with
RequestErrors == {"HTTP error! status: 500", "Failed to fetch"}

\* the trips the backend answers a request with: the two of FollowUpTrips and one
\* whose rest stop has no location
AnswerTrips ==
    FollowUpTrips \cup
    {t \in MapTrips :
        /\ t.route_coordinates = <<<<0, 2>>, <<2, 0>>>>
        /\ t.current_location = Location(Fin(1), Fin(1))
        /\ Len(t.rest_stops) = 1 /\ t.rest_stops[1].location = NoLocation}

\* onLocationSet of the three LocationInput's, after the geocoder answered
SetCurrentLocation(l) ==
    /\ ~thrown
    /\ currentLocation' = l
    /\ UNCHANGED <<renderVars, pickupLocation, dropoffLocation, currentCycleHours,
                   isCalculating, error, requests>>

SetPickupLocation(l) ==
    /\ ~thrown
    /\ pickupLocation' = l
    /\ UNCHANGED <<renderVars, currentLocation, dropoffLocation, currentCycleHours,
                   isCalculating, error, requests>>

SetDropoffLocation(l) ==
    /\ ~thrown
    /\ dropoffLocation' = l
    /\ UNCHANGED <<renderVars, currentLocation, pickupLocation, currentCycleHours,
                   isCalculating, error, requests>>

\* onChange of the cycle hours field
SetCycleHours(input) ==
    /\ ~thrown
    /\ currentCycleHours' = OrZero(parseFloat(input))
    /\ UNCHANGED <<renderVars, currentLocation, pickupLocation, dropoffLocation,
                   isCalculating, error, requests>>

\* the request with pickup and dropoff exchanged
TripRequestSwapped ==
    [current_location |-> currentLocation,
     pickup_location |-> dropoffLocation,
     dropoff_location |-> pickupLocation,
     current_cycle_used_hours |-> currentCycleHours]

\* the body of the try block up to the await
TripRequest ==
    [current_location |-> currentLocation,
     pickup_location |-> pickupLocation,
     dropoff_location |-> dropoffLocation,
     current_cycle_used_hours |-> currentCycleHours]

\* the Calculate button, disabled while isCalculating: calculateTrip up to its
\* return or its await
CalculateTrip ==
    /\ ~thrown
    /\ ~isCalculating
    /\ IF currentLocation = NoLocation \/ pickupLocation = NoLocation
          \/ dropoffLocation = NoLocation
       THEN /\ error' = <<LocationsMessage>>
            /\ isCalculating' = FALSE
            /\ UNCHANGED requests
       ELSE /\ isCalculating' = TRUE
            /\ error' = NoError
            /\ requests' = Append(requests, TripRequest)
    /\ UNCHANGED <<renderVars, currentLocation, pickupLocation, dropoffLocation,
                   currentCycleHours>>

\* createTrip resolves: calculateTrip resumes and dispatches SET_TRIP_DATA
ResolveTrip(t) ==
    /\ requests # <<>>
    /\ requests' = Tail(requests)
    /\ SetTripData(t)

\* a rejection that sets the error and leaves isCalculating as it is
RejectTripStillCalculating(message) ==
    /\ ~thrown
    /\ requests # <<>>
    /\ requests' = Tail(requests)
    /\ error' = <<message>>
    /\ UNCHANGED <<renderVars, currentLocation, pickupLocation, dropoffLocation,
                   currentCycleHours, isCalculating>>

\* createTrip rejects: the catch block dispatches SET_ERROR
RejectTrip(message) ==
    /\ ~thrown
    /\ requests # <<>>
    /\ requests' = Tail(requests)
    /\ error' = <<message>>
    /\ isCalculating' = FALSE
    /\ UNCHANGED <<renderVars, currentLocation, pickupLocation, dropoffLocation,
                   currentCycleHours>>

AppInit == \E surf \in Surfaces : Start(surf)

AppNext ==
    \/ \E l \in GeocodeResults : SetCurrentLocation(l)
    \/ \E l \in GeocodeResults : SetPickupLocation(l)
    \/ \E l \in GeocodeResults : SetDropoffLocation(l)
    \/ \E input \in CycleInputs : SetCycleHours(input)
    \/ CalculateTrip
    \/ \E t \in AnswerTrips : ResolveTrip(t)
    \/ \E message \in RequestErrors : RejectTrip(message)
    \/ ToggleLogSheets

AppSpec == AppInit /\ [][AppNext]_vars

(***************************************************************************)
(* Reading a canvas: the marks of a kind, and what the claims compare      *)
(* them with.                                                              *)
(***************************************************************************)
HasTrip == tripData # NoTrip

Logs == IF HasTrip THEN tripData.eld_logs ELSE <<>>

MarkIndices(s, Is(_)) == {k \in 1..Len(s.content) : Is(s.content[k])}

IsText(m) == m.op = "fillText"

IsTextOf(m, lit) == m.op = "fillText" /\ m.text.lit = lit

\* the text marks with the literal lit, in drawing order
TextsOf(s, lit) == SelectSeq(s.content, LAMBDA m : IsTextOf(m, lit))

\* a stroke of width 3 in a duty status colour: a segment of the log sheet
IsSegment(m) ==
    /\ m.op = "stroke"
    /\ m.lineWidth = 3
    /\ \E st \in DutyStatuses : m.style = getDutyStatusColor(st)

\* s precedes t in code unit order: s is a proper prefix of t, or the first
\* character that differs is the smaller one in s
LexLess(s, t) ==
    \E k \in 1..(Len(s) + 1) :
        /\ \A j \in 1..(k - 1) : j <= Len(t) /\ s[j] = t[j]
        /\ \/ k = Len(s) + 1 /\ Len(t) >= k
           \/ k <= Len(s) /\ k <= Len(t) /\ CharCode(s[k]) < CharCode(t[k])

\* the sum of duration_hours over the entries of a status, in hundredths
RECURSIVE SumDuration(_, _, _)
SumDuration(logs, status, n) ==
    IF n = 0 THEN 0
    ELSE SumDuration(logs, status, n - 1)
         + (IF logs[n].duty_status = status THEN logs[n].duration_hours ELSE 0)

TotalLiteral(status) ==
    CASE status = "off_duty" -> "Off Duty: hrs"
      [] status = "sleeper_berth" -> "Sleeper Berth: hrs"
      [] status = "driving" -> "Driving: hrs"
      [] status = "on_duty" -> "On Duty: hrs"

\* the total a sheet shows for a status, in tenths of an hour
RenderedTotal(s, status) == TextsOf(s, TotalLiteral(status))[1].text.nums[1]

(***************************************************************************)
(* C1: getUniqueDates returns exactly the distinct log_date values of the  *)
(* trip's eld_logs, in strictly ascending code unit order (so without      *)
(* duplicates), whatever the order of the logs; the empty sequence when    *)
(* there is no trip or no log; and partitioning its own result changes     *)
(* nothing.                                                                *)
(***************************************************************************)
C1_UniqueDatesSortedDistinct ==
    LET dates == getUniqueDates(tripData)
    IN  /\ {dates[i] : i \in 1..Len(dates)} = {Logs[i].log_date : i \in 1..Len(Logs)}
        /\ \A i \in 1..(Len(dates) - 1) : LexLess(dates[i], dates[i + 1])
        /\ (Logs = <<>> => dates = <<>>)
        /\ UniqueSorted(dates) = dates

\* three dates, given out of order and with a repeat
C1_Witness ==
    /\ Len(Logs) >= 4
    /\ Logs[1].log_date = Date3 /\ Logs[2].log_date = Date2
    /\ Logs[3].log_date = Date3 /\ Logs[4].log_date = Date1
    /\ getUniqueDates(tripData) = <<Date1, Date2, Date3>>

(***************************************************************************)
(* C2 (as amended): on every mounted log sheet, the total shown for each   *)
(* of the four duty statuses is the sum of the stored duration_hours of    *)
(* all the trip's entries with that status, rounded to one decimal by      *)
(* toFixed(1); start_time and end_time play no part.  A sheet drawn for a  *)
(* trip without entries shows 0.0 four times.                              *)
(***************************************************************************)
C2_TotalsAreRoundedSums ==
    /\ \A d \in DOMAIN sheets : \A st \in DutyStatuses :
          /\ Len(TextsOf(sheets[d], TotalLiteral(st))) = 1
          /\ RenderedTotal(sheets[d], st) = toFixed1(SumDuration(Logs, st, Len(Logs)))
    /\ (HasTrip /\ Logs = <<>>) =>
          \A st \in DutyStatuses :
              RenderedTotal(LogSheetEffect(NewCanvas(DefaultCanvasWidth, DefaultCanvasHeight),
                                           tripData, Date1), st) = 0

\* a sheet whose sleeper berth entry is stored as 0.50 h though its times span 0.75 h
C2_Witness ==
    /\ DOMAIN sheets # {}
    /\ \E i \in 1..Len(Logs) : Logs[i].duty_status = "sleeper_berth"
    /\ \A d \in DOMAIN sheets : RenderedTotal(sheets[d], "sleeper_berth") = 5
    /\ \E d \in DOMAIN sheets : RenderedTotal(sheets[d], "driving") = 25

\* C2 as stated: the rendered total equals the sum (here in hundredths of an hour)
C2_RenderedTotalIsSum ==
    \A d \in DOMAIN sheets : \A st \in DutyStatuses :
        RenderedTotal(sheets[d], st) * 10 = SumDuration(Logs, st, Len(Logs))

(***************************************************************************)
(* C3: a log sheet is not filtered by its date.  Every mounted sheet shows *)
(* the totals of all the trip's entries, a segment for every entry with    *)
(* well-formed times whatever its log_date, and a first remark line for    *)
(* the first entry with remarks whatever its log_date; two sheets of one   *)
(* trip differ in nothing but the text of the date labels.                 *)
(***************************************************************************)
SegmentsInColour(s, status) ==
    Cardinality(MarkIndices(s, LAMBDA m : IsSegment(m) /\ m.style = getDutyStatusColor(status)))

WellFormedEntries(status) ==
    {i \in 1..Len(Logs) : /\ Logs[i].duty_status = status
                          /\ IsTimeString(Logs[i].start_time)
                          /\ IsTimeString(Logs[i].end_time)}

SameButDateLabel(s1, s2) ==
    /\ Len(s1.content) = Len(s2.content)
    /\ \A k \in 1..Len(s1.content) :
          \/ s1.content[k] = s2.content[k]
          \/ /\ IsTextOf(s1.content[k], "Date: ") /\ IsTextOf(s2.content[k], "Date: ")
             /\ s1.content[k].at = s2.content[k].at

Route == IF HasTrip THEN tripData.route_coordinates ELSE <<>>

Stops == IF HasTrip THEN tripData.rest_stops ELSE <<>>

RouteLats == {Route[i][1] : i \in 1..Len(Route)}
RouteLngs == {Route[i][2] : i \in 1..Len(Route)}

Least(S) == CHOOSE m \in S : \A n \in S : m <= n
Greatest(S) == CHOOSE m \in S : \A n \in S : m >= n

\* the range of a set of coordinates, 1 in place of 0
RangeOrOne(S) == IF Greatest(S) = Least(S) THEN 1 ELSE Greatest(S) - Least(S)

\* coordinates the projection is probed with, within and beyond the route's bounds
ProbeCoords == -1..4

InBounds(lat, lng) ==
    /\ Least(RouteLats) <= lat /\ lat <= Greatest(RouteLats)
    /\ Least(RouteLngs) <= lng /\ lng <= Greatest(RouteLngs)

Projected(lat, lng) == toCanvas(Bounds(Route), mapCanvas, Fin(lat), Fin(lng))

\* the polyline of the route on the map canvas
IsRouteLine(m) == m.op = "stroke" /\ m.style = "#3b82f6"

RouteVertices ==
    UNION {{mapCanvas.content[k].path[1].pts[i] :
                i \in 1..Len(mapCanvas.content[k].path[1].pts)} :
           k \in MarkIndices(mapCanvas, IsRouteLine)}

InPadding(xy) ==
    /\ padding * Scale <= xy[1] /\ xy[1] <= (MapWidth - padding) * Scale
    /\ padding * Scale <= xy[2] /\ xy[2] <= (MapHeight - padding) * Scale

(***************************************************************************)
(* C4: with a non-empty route on the 600 x 400 map with padding 40, the    *)
(* projection is x = P + (lng - minLng) / lngRange * (W - 2P) and          *)
(* y = P + (maxLat - lat) / latRange * (H - 2P); every point within the    *)
(* route's bounds lands in the padded rectangle [P, W-P] x [P, H-P], the   *)
(* vertices of the drawn route among them, and of two latitudes the        *)
(* larger lands at the smaller y.                                          *)
(***************************************************************************)
C4_ProjectionInsidePadding ==
    Route # <<>> =>
        /\ \A lat \in ProbeCoords, lng \in ProbeCoords :
              LET xy == Projected(lat, lng)
              IN  /\ xy[1].fin /\ xy[2].fin
                  /\ xy[1].v * RangeOrOne(RouteLngs) =
                        padding * Scale * RangeOrOne(RouteLngs)
                        + (lng - Least(RouteLngs)) * (MapWidth - 2 * padding) * Scale
                  /\ xy[2].v * RangeOrOne(RouteLats) =
                        padding * Scale * RangeOrOne(RouteLats)
                        + (Greatest(RouteLats) - lat) * (MapHeight - 2 * padding) * Scale
                  /\ InBounds(lat, lng) => InPadding(<<xy[1].v, xy[2].v>>)
        /\ \A lat1 \in ProbeCoords, lat2 \in ProbeCoords :
              lat1 > lat2 => Projected(lat1, 0)[2].v < Projected(lat2, 0)[2].v
        /\ \A xy \in RouteVertices : InPadding(xy)

\* a route spanning both ranges, and the current location in the middle of the map
C4_Witness ==
    /\ Route = <<<<0, 2>>, <<2, 0>>>>
    /\ RouteVertices = {<<(MapWidth - padding) * Scale, (MapHeight - padding) * Scale>>,
                        <<padding * Scale, padding * Scale>>}
    /\ \E k \in MarkIndices(mapCanvas, LAMBDA m : IsTextOf(m, "Current")) :
          mapCanvas.content[k].at = <<300 * Scale, (200 - 15) * Scale>>

(***************************************************************************)
(* C5: a route whose points share one latitude (longitude) is projected    *)
(* with the range 1, not 0: every coordinate stays finite and every route  *)
(* point lands at y = P (x = P); the point of a one-point route lands at   *)
(* (P, P) = (40, 40), and so does a marker placed on it.                   *)
(***************************************************************************)
C5_DegenerateRangeIsOne ==
    Route # <<>> =>
        /\ \A lat \in ProbeCoords, lng \in ProbeCoords :
              Projected(lat, lng)[1].fin /\ Projected(lat, lng)[2].fin
        /\ Cardinality(RouteLats) = 1 =>
              /\ Bounds(Route).latRange = Fin(1)
              /\ \A i \in 1..Len(Route) : Projected(Route[i][1], Route[i][2])[2] = Px(padding)
              /\ \A xy \in RouteVertices : xy[2] = padding * Scale
        /\ Cardinality(RouteLngs) = 1 =>
              /\ Bounds(Route).lngRange = Fin(1)
              /\ \A i \in 1..Len(Route) : Projected(Route[i][1], Route[i][2])[1] = Px(padding)
              /\ \A xy \in RouteVertices : xy[1] = padding * Scale
        /\ Len(Route) = 1 =>
              /\ Projected(Route[1][1], Route[1][2]) = <<Px(40), Px(40)>>
              /\ (tripData.pickup_location = Location(Fin(Route[1][1]), Fin(Route[1][2]))
                    => \E k \in MarkIndices(mapCanvas, LAMBDA m : IsTextOf(m, "Pickup")) :
                          mapCanvas.content[k].at = <<40 * Scale, (40 - 15) * Scale>>)

\* a one-point route with the pickup marker on its point
C5_Witness ==
    /\ Route = <<<<0, 0>>>>
    /\ tripData.pickup_location = Location(Fin(0), Fin(0))
    /\ \E k \in MarkIndices(mapCanvas, LAMBDA m : IsTextOf(m, "Pickup")) :
          mapCanvas.content[k].at = <<40 * Scale, (40 - 15) * Scale>>

(***************************************************************************)
(* C6: with a non-empty route, the map shows exactly one marker labelled   *)
(* S<i> for the i-th rest stop when its location is present with finite    *)
(* lat and lng (0 included), and none otherwise, whatever the other rest   *)
(* stops are.                                                              *)
(***************************************************************************)
StopMarkers(i) ==
    Cardinality(MarkIndices(mapCanvas,
                            LAMBDA m : IsTextOf(m, "S") /\ m.text.nums = <<i>>))

ShouldHaveMarker(loc) ==
    loc # NoLocation /\ IsFinite(loc.lat) /\ IsFinite(loc.lng)

C6_MarkerPerFiniteRestStop ==
    Route # <<>> =>
        \A i \in 1..Len(Stops) :
            StopMarkers(i) = IF ShouldHaveMarker(Stops[i].location) THEN 1 ELSE 0

(***************************************************************************)
(* C7: without a trip, or with an empty route_coordinates, the map canvas  *)
(* holds the background and the placeholder message and nothing else (no   *)
(* line, no marker), whatever locations and rest stops the trip has; with  *)
(* a non-empty route the placeholder is not drawn.                         *)
(***************************************************************************)
C7_PlaceholderOnly ==
    /\ Route = <<>> =>
          /\ Len(mapCanvas.content) = 2
          /\ mapCanvas.content[1].op = "fillRect"
          /\ mapCanvas.content[1].at = <<0, 0, MapWidth, MapHeight>>
          /\ IsTextOf(mapCanvas.content[2], PlaceholderText.lit)
          /\ mapCanvas.content[2].at = <<(MapWidth * Scale) \div 2, (MapHeight * Scale) \div 2>>
          /\ ~thrown
    /\ Route # <<>> => TextsOf(mapCanvas, PlaceholderText.lit) = <<>>

\* a trip with rest stops and no route, drawn on a canvas that showed markers before
C7_Witness ==
    /\ HasTrip /\ Route = <<>>
    /\ Len(Stops) = 2 /\ Stops[1].location = Location(Fin(1), Fin(1))
    /\ mapCanvas.path # <<>>
    /\ Len(TextsOf(mapCanvas, PlaceholderText.lit)) = 1

(***************************************************************************)
(* C8: whatever was rendered before on the same canvas, the map canvas     *)
(* shows what one render of the current trip on a blank canvas shows, and  *)
(* every mounted log sheet shows what one render of the current trip and   *)
(* its date on a blank canvas shows.                                       *)
(***************************************************************************)
C8_RenderIsHistoryFree ==
    /\ LET once == MapViewEffect(NewCanvas(MapWidth, MapHeight), tripData).canvas
       IN  /\ mapCanvas.content = once.content
           /\ mapCanvas.width = once.width /\ mapCanvas.height = once.height
    /\ \A d \in DOMAIN sheets :
          LET once == LogSheetEffect(NewCanvas(DefaultCanvasWidth, DefaultCanvasHeight),
                                     tripData, d)
          IN  /\ sheets[d].content = once.content
              /\ sheets[d].width = once.width /\ sheets[d].height = once.height

\* the placeholder on a canvas whose context still holds the path of an earlier
\* render's marker: the canvas was drawn on before
C8_Witness ==
    /\ Route = <<>>
    /\ \E k \in 1..Len(mapCanvas.path) : mapCanvas.path[k].kind = "circle"
    /\ Len(mapCanvas.content) = 2

(***************************************************************************)
(* C9: on every mounted log sheet, an entry whose start_time or end_time   *)
(* is not of the form HH:MM or HH:MM:SS has no segment, every other entry  *)
(* has one, and the totals, the remarks list and the footer are drawn.      *)
(***************************************************************************)
WellFormed(log) == IsTimeString(log.start_time) /\ IsTimeString(log.end_time)

C9_MalformedTimeSkipsSegment ==
    \A d \in DOMAIN sheets :
          /\ Cardinality(MarkIndices(sheets[d], IsSegment))
                = Cardinality({i \in 1..Len(Logs) : WellFormed(Logs[i])})
          /\ \A st \in DutyStatuses : Len(TextsOf(sheets[d], TotalLiteral(st))) = 1
          /\ Len(TextsOf(sheets[d], "REMARKS:")) = 1
          /\ Len(TextsOf(sheets[d], "Driver Signature: _________________________")) = 1

(***************************************************************************)
(* C10: on every mounted log sheet the remark lines are the first entries  *)
(* with non-empty remarks, in input order, at x = 50 and y = 510, 525,     *)
(* ..., each below 570, at most 4 of them; no line is beyond the surface   *)
(* or over the footer.  A line of text covers the band of its font size    *)
(* above its baseline.                                                     *)
(***************************************************************************)
FontPx(font) ==
    CASE font = "8px Arial" -> 8
      [] font = "10px Arial" -> 10
      [] font = "12px Arial" -> 12
      [] font = "bold 16px Arial" -> 16

WithRemarks == SelectSeq(Logs, LAMBDA log : log.remarks # "")

FooterLine(s) == TextsOf(s, "Driver Signature: _________________________")[1]

RemarkLinesArePrefix(s) ==
    LET lines == TextsOf(s, "remark")
    IN  /\ Len(lines) = IF Len(WithRemarks) < 4 THEN Len(WithRemarks) ELSE 4
        /\ \A k \in 1..Len(lines) :
              /\ lines[k].text.strs[2] = WithRemarks[k].remarks
              /\ lines[k].at = <<50 * Scale, (510 + 15 * (k - 1)) * Scale>>
              /\ lines[k].at[2] < (SheetHeight - 30) * Scale

C10_RemarksClearOfFooter ==
    \A d \in DOMAIN sheets :
        /\ RemarkLinesArePrefix(sheets[d])
        /\ \A k \in 1..Len(TextsOf(sheets[d], "remark")) :
              LET line == TextsOf(sheets[d], "remark")[k]
              IN  /\ line.at[2] <= SheetHeight * Scale
                  /\ line.at[1] = FooterLine(sheets[d]).at[1]
                        => line.at[2] <= FooterLine(sheets[d]).at[2]
                                         - FontPx(FooterLine(sheets[d]).font) * Scale

\* what holds of the remark lines: the prefix, the positions and the limit of 4
C10_RemarkLinesArePrefix ==
    \A d \in DOMAIN sheets : RemarkLinesArePrefix(sheets[d])

(***************************************************************************)
(* The segments of a log sheet, and what the entries ask for.              *)
(***************************************************************************)
SegmentsOf(s) == SelectSeq(s.content, IsSegment)

\* minutes since midnight of a well-formed HH:MM or HH:MM:SS, seconds ignored
MinutesOf(time) ==
    (DigitVal(time[1]) * 10 + DigitVal(time[2])) * 60
    + DigitVal(time[4]) * 10 + DigitVal(time[5])

\* x = 50 + (h + m / 60) / 24 * 700, in 1/Scale px
SegmentX(time) == ((50 * 24 * 60 + MinutesOf(time) * 700) * Scale) \div (24 * 60)

RowOf(status) ==
    CASE status = "off_duty" -> 0
      [] status = "sleeper_berth" -> 1
      [] status = "driving" -> 2
      [] status = "on_duty" -> 3

\* the mid-height of a row of the grid: 110 + row * 75 + 37.5, in 1/Scale px
RowMidY(status) == ((2 * 110 + RowOf(status) * 150 + 75) * Scale) \div 2

ColourOf(status) ==
    CASE status = "driving" -> "#ef4444"
      [] status = "on_duty" -> "#f59e0b"
      [] status = "off_duty" -> "#10b981"
      [] status = "sleeper_berth" -> "#3b82f6"

\* the segment a well-formed entry asks for
SegmentFor(log) ==
    [op |-> "stroke", style |-> ColourOf(log.duty_status), lineWidth |-> 3,
     path |-> <<[kind |-> "line",
                 pts |-> <<<<SegmentX(log.start_time), RowMidY(log.duty_status)>>,
                           <<SegmentX(log.end_time), RowMidY(log.duty_status)>>>>]>>]

CountOf(seq, x) == Cardinality({i \in 1..Len(seq) : seq[i] = x})

(***************************************************************************)
(* C11: on every mounted log sheet, every entry with well-formed times has *)
(* a segment of its own, from x = 50 + (h + m/60)/24*700 of its start_time *)
(* to that of its end_time (seconds ignored), at the mid-height of its     *)
(* status row (off_duty 0, sleeper_berth 1, driving 2, on_duty 3), in its  *)
(* status colour; entries that ask for the same segment get one each.      *)
(* When all entries are well formed, the segments are those of the entries *)
(* one for one, in input order.                                            *)
(***************************************************************************)
C11_OneSegmentPerEntry ==
    \A d \in DOMAIN sheets :
        LET segs == SegmentsOf(sheets[d])
            wf == SelectSeq(Logs, WellFormed)
        IN  /\ \A i \in 1..Len(wf) :
                  CountOf(segs, SegmentFor(wf[i]))
                      >= CountOf([j \in 1..Len(wf) |-> SegmentFor(wf[j])], SegmentFor(wf[i]))
            /\ Len(wf) = Len(Logs) =>
                  segs = [i \in 1..Len(Logs) |-> SegmentFor(Logs[i])]

\* driving 08:00-10:30 twice and on_duty 08:30-09:00 within it: two red segments
\* from hour 8.0 to 10.5 in row 2, and the amber one in row 3
C11_Witness ==
    \E d \in DOMAIN sheets :
        LET segs == SegmentsOf(sheets[d])
            red == [op |-> "stroke", style |-> "#ef4444", lineWidth |-> 3,
                    path |-> <<[kind |-> "line",
                                pts |-> <<<<20400, 21420>>, <<25650, 21420>>>>]>>]
        IN  /\ Len(Logs) = 3 /\ Len(segs) = 3
            /\ segs[1] = red /\ segs[3] = red
            /\ segs[2].style = "#f59e0b"
            /\ segs[2].path[1].pts = <<<<21450, 26820>>, <<22500, 26820>>>>

(***************************************************************************)
(* C12: with a non-empty route of n points the route line is one subpath   *)
(* whose vertices are the projections of route_coordinates[0..n-1] in      *)
(* array order: a move-to at point 0 and n-1 line-to's, no point           *)
(* reordered, dropped or de-duplicated.  With n >= 2 that polyline is the  *)
(* one route line on the map; the lone move-to of n = 1 strokes nothing.   *)
(***************************************************************************)
RouteProjections ==
    [i \in 1..Len(Route) |->
        <<Projected(Route[i][1], Route[i][2])[1].v, Projected(Route[i][1], Route[i][2])[2].v>>]

RouteLines == SelectSeq(mapCanvas.content, IsRouteLine)

C12_PolylineThroughEveryPoint ==
    Route # <<>> =>
        /\ DrawRoute(ClearMap(mapCanvas), Bounds(Route), Route).path
              = <<[kind |-> "line", pts |-> RouteProjections]>>
        /\ Len(Route) >= 2 =>
              /\ Len(RouteLines) = 1
              /\ RouteLines[1].path = <<[kind |-> "line", pts |-> RouteProjections]>>
              /\ RouteLines[1].lineWidth = 3
        /\ Len(Route) = 1 => RouteLines = <<>>

\* a route whose last point repeats the one before it: both are vertices of the line
C12_Witness ==
    /\ Len(Route) >= 2
    /\ Route[Len(Route)] = Route[Len(Route) - 1]
    /\ Len(RouteLines) = 1
    /\ Len(RouteLines[1].path[1].pts) = Len(Route)
    /\ RouteLines[1].path[1].pts[Len(Route)] = RouteLines[1].path[1].pts[Len(Route) - 1]

(***************************************************************************)
(* C13: when the effects find no canvas or no 2D context, neither the      *)
(* route map nor a log sheet is drawn on (the surface and its dimensions   *)
(* stay as they were made), and once a trip was to be rendered the failure *)
(* is reported: an exception leaves the effect or the application state    *)
(* holds an error.                                                         *)
(***************************************************************************)
SurfacesUntouched ==
    /\ mapCanvas = NewCanvas(MapWidth, MapHeight)
    /\ \A d \in DOMAIN sheets :
          sheets[d] = NewCanvas(DefaultCanvasWidth, DefaultCanvasHeight)

C13_MissingSurfaceReported ==
    surface # "ok" /\ HasTrip => SurfacesUntouched /\ (thrown \/ error # NoError)

\* what holds with a missing surface: nothing is drawn, with a trip and its log
\* sheets mounted or without
C13_MissingSurfaceUntouched ==
    surface # "ok" => SurfacesUntouched /\ ~thrown

\* a trip arrived and its log sheets are mounted, with no 2D context to draw on
C13_MissingSurfaceRendered ==
    /\ surface = "noContext" /\ HasTrip /\ DOMAIN sheets # {}
    /\ SurfacesUntouched /\ error = NoError /\ ~thrown

(***************************************************************************)
(* C14: after any sequence of calls of getUniqueDates and of the two       *)
(* renderers, route_coordinates, rest_stops and eld_logs of the trip have  *)
(* the elements they were received with, in the same order: the sort of    *)
(* getUniqueDates does not reorder eld_logs.  A render changes the         *)
(* surfaces (and may throw) and nothing else: showing or hiding the log    *)
(* sheets changes only the flag and the sheets.                            *)
(***************************************************************************)
TripAsReceived ==
    HasTrip =>
        /\ response # NoTrip
        /\ tripData.route_coordinates = response.route_coordinates
        /\ tripData.rest_stops = response.rest_stops
        /\ tripData.eld_logs = response.eld_logs
        /\ tripData = response

C14_TripNeverChanged ==
    /\ []TripAsReceived
    /\ [][/\ UNCHANGED <<surface, appVars>>
          /\ showLogSheets' # showLogSheets =>
                UNCHANGED <<tripData, mapCanvas, thrown, response>>]_vars

\* the log sheets of a trip whose eld_logs are not in the order of their dates are
\* shown: getUniqueDates sorted its dates, and eld_logs is as it was received
C14_Witness ==
    /\ HasTrip /\ showLogSheets /\ DOMAIN sheets # {}
    /\ Len(Logs) >= 2
    /\ StrLess(Logs[2].log_date, Logs[1].log_date)
    /\ getUniqueDates(tripData)[1] = Logs[2].log_date
    /\ tripData.eld_logs = response.eld_logs

(***************************************************************************)
(* C15: isCalculating is true exactly while a createTrip request has not   *)
(* settled, and at most one request is outstanding.  A step that issues a  *)
(* request starts from isCalculating false and makes it true; a step that  *)
(* settles a request, with a trip (SET_TRIP_DATA) or with an error         *)
(* (SET_ERROR), leaves isCalculating false.                                *)
(***************************************************************************)
CalculatingWhileOutstanding ==
    /\ isCalculating <=> requests # <<>>
    /\ Len(requests) <= 1

C15_CalculatingWhileOutstanding ==
    /\ []CalculatingWhileOutstanding
    /\ [][/\ Len(requests') > Len(requests) => ~isCalculating /\ isCalculating'
          /\ Len(requests') < Len(requests) =>
                /\ ~isCalculating'
                /\ \/ response' # NoTrip /\ tripData' = response' /\ error' = error
                   \/ error' # NoError /\ tripData' = tripData]_vars

\* a second request is outstanding after the first one settled with a trip
C15_Witness ==
    /\ HasTrip /\ isCalculating /\ Len(requests) = 1 /\ error = NoError

(***************************************************************************)
(* C16: calculateTrip with currentLocation, pickupLocation or              *)
(* dropoffLocation unset issues no request: it sets error to the 'set all  *)
(* location coordinates' message, leaves isCalculating false and leaves    *)
(* tripData, the three locations and currentCycleHours as they are.  A     *)
(* request is issued only with all three locations set, and it carries the *)
(* three locations and the cycle hours of the state it was issued in.      *)
(***************************************************************************)
AnyLocationUnset ==
    \/ currentLocation = NoLocation
    \/ pickupLocation = NoLocation
    \/ dropoffLocation = NoLocation

C16_NoRequestWithoutLocations ==
    [][/\ AnyLocationUnset => requests' = requests
       /\ CalculateTrip /\ AnyLocationUnset =>
             /\ error' = <<"Please set all location coordinates before calculating trip">>
             /\ ~isCalculating'
             /\ UNCHANGED <<tripData, currentLocation, pickupLocation, dropoffLocation,
                            currentCycleHours>>
       /\ Len(requests') > Len(requests) =>
             /\ ~AnyLocationUnset
             /\ requests' = Append(requests,
                                   [current_location |-> currentLocation,
                                    pickup_location |-> pickupLocation,
                                    dropoff_location |-> dropoffLocation,
                                    current_cycle_used_hours |-> currentCycleHours])]_vars

\* Calculate was pressed with the dropoff location unset and the other two set
C16_Witness ==
    /\ currentLocation # NoLocation /\ pickupLocation # NoLocation
    /\ dropoffLocation = NoLocation
    /\ error = <<LocationsMessage>>
    /\ ~isCalculating /\ requests = <<>>

=============================================================================
